---- MODULE Spec2Model ----
(***************************************************************************)
(* AiderOrchestrator (aider_script.py): the run() procedure, stepped by    *)
(* its position, together with is_complete(), read_prompt_file(),          *)
(* load_config() and create_coder().  The repository head, the chat        *)
(* history file and the override configuration file are the environment:  *)
(* they change only while a delegated session runs.                        *)
(***************************************************************************)
EXTENDS Integers, Sequences, FiniteSets, TLC

\* ---------------------------------------------------------------- bounds
MaxIter == 3        \* largest max_iterations explored (smallest is -1)
NumHashes == 2      \* number of distinct head commit identifiers

Hashes == 1..NumHashes
MaxIterations == -1..MaxIter

\* ------------------------------------------------------------ file values
\* A file on disk: absent, present but unreadable, or present with a text.
Absent == <<"absent">>
Denied == <<"denied">>
File(text) == <<"file", text>>
Exists(f) == f # Absent
Text(f) == f[2]

\* Optional[str]: None, or a text.
None == <<"None">>
Some(text) == <<"str", text>>
\* Python truthiness of an Optional[str]: None and "" are falsy.
Truthy(o) == o # None /\ o[2] # ""

PromptFiles == {Absent, Denied, File(""), File("prompt text")}

\* Chat history texts are sequences of characters.
Histories == {Absent, File(<<>>), File(<<"D">>), File(<<"x", "D", "O">>)}
StopTokens == {<<"D", "O">>, <<>>}

\* `needle in haystack` on Python strings.
Contains(needle, haystack) ==
    \E i \in 0..(Len(haystack) - Len(needle)) :
        SubSeq(haystack, i + 1, i + Len(needle)) = needle

\* ---------------------------------------------------------- configuration
BaseConfig ==
    [analytics_disable |-> TRUE, auto_commits |-> TRUE, auto_lint |-> TRUE,
     auto_test |-> FALSE, check_update |-> FALSE, stream |-> FALSE,
     yes_always |-> TRUE]

\* The empty mapping {}.
EmptyMap == [k \in {} |-> TRUE]

\* ~/.aider.conf.yml: absent, an empty document (safe_load gives None), a
\* mapping, a document that is no mapping, or a document that does not parse.
ConfNull == <<"null">>
ConfMap(m) == <<"map", m>>
ConfScalar == <<"scalar">>
ConfSyntax == <<"syntax">>

\* {**b, **a}: the first mapping wins.
DictMerge_first_wins(a, b) ==
    [k \in DOMAIN a \cup DOMAIN b |-> IF k \in DOMAIN a THEN a[k] ELSE b[k]]

\* {**a, **b}
DictMerge(a, b) ==
    [k \in DOMAIN a \cup DOMAIN b |-> IF k \in DOMAIN b THEN b[k] ELSE a[k]]

\* yaml.safe_load(f): the value, or a parse error.
safe_load(f) ==
    IF f = ConfSyntax THEN [ok |-> FALSE, error |-> "YAMLError"]
    ELSE IF f = ConfNull THEN [ok |-> TRUE, kind |-> "None"]
    ELSE IF f = ConfScalar THEN [ok |-> TRUE, kind |-> "str"]
    ELSE [ok |-> TRUE, kind |-> "dict", value |-> f[2]]

\* load_config(): the mapping returned (or the error raised) and
\* self.base_config as the call leaves it.
load_config(f, base) ==
    IF ~Exists(f) THEN [ok |-> TRUE, value |-> base, base_config |-> base]
    ELSE LET user_config == safe_load(f) IN
         IF ~user_config.ok
         THEN [ok |-> FALSE, error |-> user_config.error, base_config |-> base]
         ELSE IF user_config.kind = "None"
         THEN [ok |-> TRUE, value |-> DictMerge(base, EmptyMap), base_config |-> base]
         ELSE IF user_config.kind = "str"
         THEN [ok |-> FALSE, error |-> "TypeError", base_config |-> base]
         ELSE IF DOMAIN user_config.value = {}
         THEN [ok |-> TRUE, value |-> DictMerge(base, EmptyMap), base_config |-> base]
         ELSE [ok |-> TRUE, value |-> DictMerge(base, user_config.value),
               base_config |-> base]

\* The override files the run() model draws from (SpecConfig draws from all).
ConfFiles ==
    {Absent, ConfNull, ConfSyntax, ConfScalar,
     ConfMap([auto_commits |-> FALSE, verbose |-> TRUE])}

\* ------------------------------------------------------------ is_complete
\* is_complete() with the commit comparison made before the token check.
is_complete_commit_first(hist, token, current_hash, prev) ==
    IF current_hash # prev
    THEN [ret |-> FALSE, previous_hash |-> current_hash, printed |-> FALSE]
    ELSE IF Exists(hist) /\ Contains(token, Text(hist))
    THEN [ret |-> TRUE, previous_hash |-> prev, printed |-> FALSE]
    ELSE [ret |-> TRUE, previous_hash |-> prev, printed |-> TRUE]

\* is_complete() without line 75: previous_hash is never updated.
is_complete_no_update(hist, token, current_hash, prev) ==
    IF Exists(hist) /\ Contains(token, Text(hist))
    THEN [ret |-> TRUE, previous_hash |-> prev, printed |-> FALSE]
    ELSE IF current_hash = prev
    THEN [ret |-> TRUE, previous_hash |-> prev, printed |-> TRUE]
    ELSE [ret |-> FALSE, previous_hash |-> prev, printed |-> FALSE]

\* is_complete() comparing the history with the token instead of searching it.
is_complete_token_equal(hist, token, current_hash, prev) ==
    IF Exists(hist) /\ Text(hist) = token
    THEN [ret |-> TRUE, previous_hash |-> prev, printed |-> FALSE]
    ELSE IF current_hash = prev
    THEN [ret |-> TRUE, previous_hash |-> prev, printed |-> TRUE]
    ELSE [ret |-> FALSE, previous_hash |-> current_hash, printed |-> FALSE]

\* is_complete() with line 75 moved above the token check: previous_hash is
\* stored on every call.
is_complete_store_first(hist, token, current_hash, prev) ==
    IF Exists(hist) /\ Contains(token, Text(hist))
    THEN [ret |-> TRUE, previous_hash |-> current_hash, printed |-> FALSE]
    ELSE IF current_hash = prev
    THEN [ret |-> TRUE, previous_hash |-> current_hash, printed |-> TRUE]
    ELSE [ret |-> FALSE, previous_hash |-> current_hash, printed |-> FALSE]

\* is_complete(): the returned value, the previous_hash it leaves, and
\* whether "Not modified" was printed.
is_complete(hist, token, current_hash, prev) ==
    IF Exists(hist) /\ Contains(token, Text(hist))
    THEN [ret |-> TRUE, previous_hash |-> prev, printed |-> FALSE]
    ELSE IF current_hash = prev
    THEN [ret |-> TRUE, previous_hash |-> prev, printed |-> TRUE]
    ELSE [ret |-> FALSE, previous_hash |-> current_hash, printed |-> FALSE]

\* read_prompt_file(): the value returned, whether the warning is printed,
\* and whether another error than FileNotFoundError is raised.
read_prompt_file(f) ==
    IF f = Absent THEN [raised |-> FALSE, value |-> None, warned |-> TRUE]
    ELSE IF f = Denied THEN [raised |-> TRUE, value |-> None, warned |-> FALSE]
    ELSE [raised |-> FALSE, value |-> Some(Text(f)), warned |-> FALSE]

\* ------------------------------------------------------------------ state
VARIABLES
    requirements_file,          \* the file at self.requirements_file
    continuation_prompt_file,   \* the file at self.continuation_prompt_file
    max_iterations,
    stop_token,
    previous_hash,
    base_config,
    head,                       \* self.repo.head.commit.hexsha
    history,                    \* .aider.chat.history.md
    conf_file,                  \* ~/.aider.conf.yml
    pc,                         \* position in run()
    requirements,               \* local of run()
    continuation_prompt,        \* local of run()
    iteration,                  \* local of run()
    sessions,                   \* every Coder created, in order, with the prompts it ran
    outcome,                    \* "running", "returned", "exit1" or "raised"
    error,                      \* which step failed, "none" if none
    stdout,                     \* the messages printed
    check_log,                  \* every is_complete() call: what it saw and returned
    reads,                      \* the prompt files read, in order
    loop_entry,                 \* the environment when the implementation loop started
    constructed_hash,           \* the head commit when __init__ ran
    config                      \* result of the last load_config() call

vars ==
    <<requirements_file, continuation_prompt_file, max_iterations, stop_token,
      previous_hash, base_config, head, history, conf_file, pc, requirements,
      continuation_prompt, iteration, sessions, outcome, error, stdout,
      check_log, reads, loop_entry, constructed_hash, config>>

env == <<head, history, conf_file>>
params ==
    <<requirements_file, continuation_prompt_file, max_iterations, stop_token,
      constructed_hash>>

NoError == <<"none", "none", "none">>
NotEntered == [entered |-> FALSE]
NoConfig == [loaded |-> FALSE]

\* __init__ followed by the call of run().
Init ==
    /\ requirements_file \in PromptFiles
    /\ continuation_prompt_file \in PromptFiles
    /\ max_iterations \in MaxIterations
    /\ stop_token \in StopTokens
    /\ head \in Hashes
    /\ previous_hash = head
    /\ base_config = BaseConfig
    /\ history \in Histories
    /\ conf_file \in ConfFiles
    /\ pc = "read_requirements"
    /\ requirements = None
    /\ continuation_prompt = None
    /\ iteration = 0
    /\ sessions = <<>>
    /\ outcome = "running"
    /\ error = NoError
    /\ stdout = <<>>
    /\ check_log = <<>>
    /\ reads = <<>>
    /\ loop_entry = NotEntered
    /\ constructed_hash = head
    /\ config = NoConfig

\* The chat history file is present and holds the stop token.
TokenIn(hist) == Exists(hist) /\ Contains(stop_token, Text(hist))

\* run() ends: normally, by sys.exit(1), or by an exception leaving it.
Finish(how, why) ==
    /\ pc' = "done"
    /\ outcome' = how
    /\ error' = why

Continue(to) ==
    /\ pc' = to
    /\ UNCHANGED <<outcome, error>>

\* lines 117-119 without the sys.exit(1) of line 119.
ReadRequirements_no_exit ==
    /\ pc = "read_requirements"
    /\ LET r == read_prompt_file(requirements_file) IN
       /\ requirements' = r.value
       /\ stdout' = IF r.warned THEN Append(stdout, "not found") ELSE stdout
       /\ IF r.raised THEN Finish("raised", <<"requirements", "read", "OSError">>)
          ELSE Continue("architect_create")
    /\ reads' = Append(reads, "requirements")
    /\ UNCHANGED <<params, env, previous_hash, base_config, continuation_prompt,
                   iteration, sessions, check_log, loop_entry, config>>

\* lines 117-119
ReadRequirements ==
    /\ pc = "read_requirements"
    /\ LET r == read_prompt_file(requirements_file) IN
       /\ requirements' = r.value
       /\ stdout' = IF r.warned THEN Append(stdout, "not found") ELSE stdout
       /\ IF r.raised THEN Finish("raised", <<"requirements", "read", "OSError">>)
          ELSE IF ~Truthy(r.value)
          THEN Finish("exit1", <<"requirements", "read", "falsy">>)
          ELSE Continue("architect_create")
    /\ reads' = Append(reads, "requirements")
    /\ UNCHANGED <<params, env, previous_hash, base_config, continuation_prompt,
                   iteration, sessions, check_log, loop_entry, config>>

\* create_coder(chat_mode): the Coder built, or the error raised.  ext_ok is
\* whether InputOutput(), Model() and Coder.create() return.
create_coder(chat_mode, f, base, ext_ok) ==
    LET c == load_config(f, base) IN
    IF ~c.ok THEN [ok |-> FALSE, error |-> c.error, config |-> c]
    ELSE IF ~ext_ok THEN [ok |-> FALSE, error |-> "CoderError", config |-> c]
    ELSE [ok |-> TRUE, config |-> c,
          coder |-> [chat_mode |-> chat_mode,
                     auto_commits |-> c.value["auto_commits"],
                     auto_lint |-> c.value["auto_lint"],
                     auto_test |-> c.value["auto_test"],
                     stream |-> c.value["stream"],
                     ran |-> <<>>]]

\* The step that failed, for a create_coder() error in the given phase.
CreateError(phase, r) ==
    IF ~r.config.ok THEN <<phase, "load_config", r.error>>
    ELSE <<phase, "create", r.error>>

\* coder.run(prompt) on the session created last.
Ran(prompt) ==
    [sessions EXCEPT ![Len(sessions)].ran = Append(@, prompt)]

\* What a delegated session may do to the files and the repository.
Delegated ==
    /\ head' \in Hashes
    /\ history' \in Histories
    /\ conf_file' \in ConfFiles

\* line 121
CreateArchitect ==
    /\ pc = "architect_create"
    /\ \E ext_ok \in BOOLEAN :
         LET r == create_coder("architect", conf_file, base_config, ext_ok) IN
         /\ config' = [loaded |-> TRUE, result |-> r.config]
         /\ base_config' = r.config.base_config
         /\ IF r.ok
            THEN /\ sessions' = Append(sessions, r.coder)
                 /\ Continue("architect_run")
            ELSE /\ UNCHANGED sessions
                 /\ Finish("raised", CreateError("architect", r))
    /\ UNCHANGED <<params, env, previous_hash, requirements, continuation_prompt,
                   iteration, stdout, check_log, reads, loop_entry>>

\* line 122
RunArchitect ==
    /\ pc = "architect_run"
    /\ sessions' = Ran(requirements)
    /\ Delegated
    /\ \E raises \in BOOLEAN :
         IF raises THEN Finish("raised", <<"architect", "run", "Exception">>)
         ELSE Continue("read_continuation")
    /\ UNCHANGED <<params, previous_hash, base_config, requirements,
                   continuation_prompt, iteration, stdout, check_log, reads,
                   loop_entry, config>>

\* lines 125-129 without the sys.exit(1) of line 127.
ReadContinuation_no_exit ==
    /\ pc = "read_continuation"
    /\ LET r == read_prompt_file(continuation_prompt_file) IN
       /\ continuation_prompt' = r.value
       /\ stdout' = IF r.warned THEN Append(stdout, "not found") ELSE stdout
       /\ IF r.raised THEN /\ Finish("raised", <<"continuation", "read", "OSError">>)
                           /\ UNCHANGED loop_entry
          ELSE /\ Continue("loop")
               /\ loop_entry' = [entered |-> TRUE, token_seen |-> TokenIn(history)]
    /\ reads' = Append(reads, "continuation")
    /\ iteration' = 0
    /\ UNCHANGED <<params, env, previous_hash, base_config, requirements, sessions,
                   check_log, config>>

\* lines 125-129 with the counter of line 129 starting at 1.
ReadContinuation_from_one ==
    /\ pc = "read_continuation"
    /\ LET r == read_prompt_file(continuation_prompt_file) IN
       /\ continuation_prompt' = r.value
       /\ stdout' = IF r.warned THEN Append(stdout, "not found") ELSE stdout
       /\ IF r.raised THEN /\ Finish("raised", <<"continuation", "read", "OSError">>)
                           /\ UNCHANGED <<loop_entry, iteration>>
          ELSE IF ~Truthy(r.value)
          THEN /\ Finish("exit1", <<"continuation", "read", "falsy">>)
               /\ UNCHANGED <<loop_entry, iteration>>
          ELSE /\ Continue("loop")
               /\ loop_entry' = [entered |-> TRUE, token_seen |-> TokenIn(history)]
               /\ iteration' = 1
    /\ reads' = Append(reads, "continuation")
    /\ UNCHANGED <<params, env, previous_hash, base_config, requirements, sessions,
                   check_log, config>>

\* lines 125-129
ReadContinuation ==
    /\ pc = "read_continuation"
    /\ LET r == read_prompt_file(continuation_prompt_file) IN
       /\ continuation_prompt' = r.value
       /\ stdout' = IF r.warned THEN Append(stdout, "not found") ELSE stdout
       /\ IF r.raised THEN /\ Finish("raised", <<"continuation", "read", "OSError">>)
                           /\ UNCHANGED loop_entry
          ELSE IF ~Truthy(r.value)
          THEN /\ Finish("exit1", <<"continuation", "read", "falsy">>)
               /\ UNCHANGED loop_entry
          ELSE /\ Continue("loop")
               /\ loop_entry' = [entered |-> TRUE, token_seen |-> TokenIn(history)]
    /\ reads' = Append(reads, "continuation")
    /\ iteration' = 0
    /\ UNCHANGED <<params, env, previous_hash, base_config, requirements, sessions,
                   check_log, config>>

\* line 130 with the call of is_complete() of lines 131-132 left out.
LoopTest_no_check ==
    /\ pc = "loop"
    /\ IF iteration < max_iterations
       THEN Continue("iterate")
       ELSE Finish("returned", error)
    /\ UNCHANGED <<params, env, previous_hash, base_config, requirements,
                   continuation_prompt, iteration, sessions, stdout, check_log,
                   reads, loop_entry, config>>

\* line 130 with <= for <.
LoopTest_le ==
    /\ pc = "loop"
    /\ IF iteration <= max_iterations
       THEN Continue("check")
       ELSE Finish("returned", error)
    /\ UNCHANGED <<params, env, previous_hash, base_config, requirements,
                   continuation_prompt, iteration, sessions, stdout, check_log,
                   reads, loop_entry, config>>

\* line 130
LoopTest ==
    /\ pc = "loop"
    /\ IF iteration < max_iterations
       THEN Continue("check")
       ELSE Finish("returned", error)
    /\ UNCHANGED <<params, env, previous_hash, base_config, requirements,
                   continuation_prompt, iteration, sessions, stdout, check_log,
                   reads, loop_entry, config>>

\* lines 131-132
CheckComplete ==
    /\ pc = "check"
    /\ LET r == is_complete(history, stop_token, head, previous_hash) IN
       /\ previous_hash' = r.previous_hash
       /\ stdout' = IF r.printed THEN Append(stdout, "not modified") ELSE stdout
       /\ check_log' = Append(check_log,
                              [token_seen |-> TokenIn(history), head |-> head,
                               previous_hash |-> previous_hash, ret |-> r.ret,
                               after |-> r.previous_hash])
       /\ IF r.ret THEN Finish("returned", error)
          ELSE Continue("iterate")
    /\ UNCHANGED <<params, env, base_config, requirements, continuation_prompt,
                   iteration, sessions, reads, loop_entry, config>>

\* lines 134-135
StartIteration ==
    /\ pc = "iterate"
    /\ iteration' = iteration + 1
    /\ stdout' = Append(stdout, "starting")
    /\ Continue("code_create")
    /\ UNCHANGED <<params, env, previous_hash, base_config, requirements,
                   continuation_prompt, sessions, check_log, reads, loop_entry,
                   config>>

\* line 138 placed before the try statement: its errors leave run().
CreateCode_outside_try ==
    /\ pc = "code_create"
    /\ \E ext_ok \in BOOLEAN :
         LET r == create_coder("code", conf_file, base_config, ext_ok) IN
         /\ config' = [loaded |-> TRUE, result |-> r.config]
         /\ base_config' = r.config.base_config
         /\ IF r.ok
            THEN /\ sessions' = Append(sessions, r.coder)
                 /\ Continue("code_run")
            ELSE /\ UNCHANGED sessions
                 /\ Finish("raised", CreateError("code", r))
    /\ UNCHANGED <<params, env, previous_hash, requirements, continuation_prompt,
                   iteration, stdout, check_log, reads, loop_entry>>

\* lines 138, 140-142 with the session of the first iteration kept for the
\* later ones.
CreateCode_reuse ==
    /\ pc = "code_create"
    /\ \E ext_ok \in BOOLEAN :
         LET r == create_coder("code", conf_file, base_config, ext_ok) IN
         /\ config' = [loaded |-> TRUE, result |-> r.config]
         /\ base_config' = r.config.base_config
         /\ IF r.ok
            THEN /\ sessions' = IF sessions[Len(sessions)].chat_mode = "code"
                                THEN sessions ELSE Append(sessions, r.coder)
                 /\ Continue("code_run")
                 /\ UNCHANGED stdout
            ELSE /\ UNCHANGED sessions
                 /\ stdout' = Append(stdout, "error")
                 /\ Finish("exit1", CreateError("code", r))
    /\ UNCHANGED <<params, env, previous_hash, requirements, continuation_prompt,
                   iteration, check_log, reads, loop_entry>>

\* lines 138, 140-142
CreateCode ==
    /\ pc = "code_create"
    /\ \E ext_ok \in BOOLEAN :
         LET r == create_coder("code", conf_file, base_config, ext_ok) IN
         /\ config' = [loaded |-> TRUE, result |-> r.config]
         /\ base_config' = r.config.base_config
         /\ IF r.ok
            THEN /\ sessions' = Append(sessions, r.coder)
                 /\ Continue("code_run")
                 /\ UNCHANGED stdout
            ELSE /\ UNCHANGED sessions
                 /\ stdout' = Append(stdout, "error")
                 /\ Finish("exit1", CreateError("code", r))
    /\ UNCHANGED <<params, env, previous_hash, requirements, continuation_prompt,
                   iteration, check_log, reads, loop_entry>>

\* lines 139-141 without the sys.exit(1) of line 142: the loop goes on.
RunCode_no_exit ==
    /\ pc = "code_run"
    /\ sessions' = Ran(continuation_prompt)
    /\ Delegated
    /\ \E raises \in BOOLEAN :
         IF raises
         THEN /\ stdout' = Append(stdout, "error")
              /\ error' = <<"code", "run", "Exception">>
              /\ pc' = "loop"
              /\ UNCHANGED outcome
         ELSE /\ Continue("loop")
              /\ UNCHANGED stdout
    /\ UNCHANGED <<params, previous_hash, base_config, requirements,
                   continuation_prompt, iteration, check_log, reads, loop_entry,
                   config>>

\* lines 139-142
RunCode ==
    /\ pc = "code_run"
    /\ sessions' = Ran(continuation_prompt)
    /\ Delegated
    /\ \E raises \in BOOLEAN :
         IF raises
         THEN /\ stdout' = Append(stdout, "error")
              /\ Finish("exit1", <<"code", "run", "Exception">>)
         ELSE /\ Continue("loop")
              /\ UNCHANGED stdout
    /\ UNCHANGED <<params, previous_hash, base_config, requirements,
                   continuation_prompt, iteration, check_log, reads, loop_entry,
                   config>>

Next ==
    \/ ReadRequirements
    \/ CreateArchitect
    \/ RunArchitect
    \/ ReadContinuation
    \/ LoopTest
    \/ CheckComplete
    \/ StartIteration
    \/ CreateCode
    \/ RunCode

Spec == Init /\ [][Next]_vars

\* run() where every statement that can execute does, and every delegation
\* call returns or raises: no step of run() waits for anything else.
SpecFair == Init /\ [][Next]_vars /\ WF_vars(Next)

\* ------------------------------------------------ load_config() on its own
\* Every override mapping over the default keys and one key that is no default.
OverrideKeys == DOMAIN BaseConfig \cup {"verbose"}
OverrideMaps == UNION {[S -> BOOLEAN] : S \in SUBSET OverrideKeys}
AllConfFiles ==
    {Absent, ConfNull, ConfSyntax, ConfScalar} \cup {ConfMap(m) : m \in OverrideMaps}

InitConfig ==
    /\ requirements_file = Absent
    /\ continuation_prompt_file = Absent
    /\ max_iterations = 0
    /\ stop_token = <<>>
    /\ head = 1
    /\ previous_hash = head
    /\ base_config = BaseConfig
    /\ history = Absent
    /\ conf_file \in AllConfFiles
    /\ pc = "load_config"
    /\ requirements = None
    /\ continuation_prompt = None
    /\ iteration = 0
    /\ sessions = <<>>
    /\ outcome = "running"
    /\ error = NoError
    /\ stdout = <<>>
    /\ check_log = <<>>
    /\ reads = <<>>
    /\ loop_entry = NotEntered
    /\ constructed_hash = head
    /\ config = NoConfig

\* lines 53-60, called once
CallLoadConfig ==
    /\ pc = "load_config"
    /\ LET c == load_config(conf_file, base_config) IN
       /\ config' = [loaded |-> TRUE, result |-> c]
       /\ base_config' = c.base_config
       /\ IF c.ok THEN Finish("returned", error)
          ELSE Finish("raised", <<"none", "load_config", c.error>>)
    /\ UNCHANGED <<params, env, previous_hash, requirements, continuation_prompt,
                   iteration, sessions, stdout, check_log, reads, loop_entry>>

NextConfig ==
    \/ CallLoadConfig

SpecConfig == InitConfig /\ [][NextConfig]_vars
\* ================================================================ properties
Max0(n) == IF n < 0 THEN 0 ELSE n

ModeSessions(mode) == {i \in 1..Len(sessions) : sessions[i].chat_mode = mode}
CodeCreated == Cardinality(ModeSessions("code"))
\* coder.run() calls made on sessions of the mode
RECURSIVE SumRuns(_)
SumRuns(S) ==
    IF S = {} THEN 0
    ELSE LET i == CHOOSE j \in S : TRUE IN Len(sessions[i].ran) + SumRuns(S \ {i})
CodeDelegations == SumRuns(ModeSessions("code"))
ArchitectDelegations == SumRuns(ModeSessions("architect"))

\* The stop token is in the chat history the call saw.
TokenSeen(c) == c.token_seen
Readable(f) == f \notin {Absent, Denied}
NothingRaised == error[3] \in {"none", "falsy"}

\* ---------------------------------------------------------------------- C1
\* C1: the loop makes at most max_iterations code-mode delegation calls, and
\* when both prompt files are readable, nothing raises, no completion check
\* sees the stop token and the head commit differs from the stored one at
\* every completion check, run() ends normally after exactly max_iterations
\* code-mode sessions have been created and run (max_iterations >= 0).
C1_AtMostMaxIterations ==
    /\ CodeDelegations <= Max0(max_iterations)
    /\ ( /\ pc = "done"
         /\ max_iterations >= 0
         /\ Readable(requirements_file)
         /\ Readable(continuation_prompt_file)
         /\ NothingRaised
         /\ \A i \in 1..Len(check_log) :
               ~TokenSeen(check_log[i])
               /\ check_log[i].head # check_log[i].previous_hash
         => /\ outcome = "returned"
            /\ CodeCreated = max_iterations
            /\ CodeDelegations = max_iterations )

\* ---------------------------------------------------------------------- C2
\* C2: every is_complete() call that finds the chat history present and
\* containing the stop token returns true, whether or not the head commit
\* equals the stored previous identifier, and the commit comparison is not
\* made: no "Not modified" message is printed and previous_hash is untouched.
C2_TokenStops ==
    \A i \in 1..Len(check_log) :
        TokenSeen(check_log[i]) =>
            /\ check_log[i].ret
            /\ check_log[i].after = check_log[i].previous_hash
            /\ i = Len(check_log)
            /\ "not modified" \notin {stdout[j] : j \in 1..Len(stdout)}

\* a call that saw the token while the head commit had changed
C2_Witness ==
    /\ check_log # <<>>
    /\ TokenSeen(check_log[Len(check_log)])
    /\ check_log[Len(check_log)].head # check_log[Len(check_log)].previous_hash
    /\ stop_token # <<>>

\* a call that saw the token while the head commit was unchanged
C2_WitnessSameHead ==
    /\ check_log # <<>>
    /\ TokenSeen(check_log[Len(check_log)])
    /\ check_log[Len(check_log)].head = check_log[Len(check_log)].previous_hash

\* ---------------------------------------------------------------------- C3
\* The stored identifier a call must find: the head commit at construction,
\* or the head commit seen by the last earlier call that returned false.
ExpectedPrevious(i) ==
    LET earlier == {j \in 1..(i - 1) : ~check_log[j].ret} IN
    IF earlier = {} THEN constructed_hash
    ELSE check_log[CHOOSE j \in earlier : \A k \in earlier : k <= j].head

\* C3: a call of is_complete() that does not see the stop token (history
\* absent, or present without the token) returns true exactly when the head
\* commit equals the stored previous identifier, the stored identifier being
\* the one captured at construction or at the last call that returned false;
\* after a call that returns false the stored identifier is the head commit.
C3_CommitComparison ==
    /\ \A i \in 1..Len(check_log) :
          /\ check_log[i].previous_hash = ExpectedPrevious(i)
          /\ ~TokenSeen(check_log[i]) =>
                (check_log[i].ret <=> check_log[i].head = check_log[i].previous_hash)
          /\ ~check_log[i].ret => check_log[i].after = check_log[i].head
    /\ previous_hash = ExpectedPrevious(Len(check_log) + 1)

\* a second call, after one that returned false, with the history file absent
C3_Witness ==
    /\ Len(check_log) >= 2
    /\ ~check_log[1].ret
    /\ check_log[1].head # constructed_hash
    /\ ~check_log[2].ret
    /\ pc = "iterate"
    /\ history = Absent

\* a call that returned true because the head commit had not changed
C3_WitnessUnchanged ==
    /\ Len(check_log) >= 2
    /\ ~TokenSeen(check_log[2])
    /\ check_log[2].ret

\* ---------------------------------------------------------------------- C4
\* C4: when the implementation loop starts with the stop token in the chat
\* history, run() creates and runs no code-mode session and ends normally,
\* whatever the head commit and max_iterations are.
C4_TokenAtLoopStart ==
    (loop_entry.entered /\ loop_entry.token_seen) =>
        /\ CodeCreated = 0
        /\ CodeDelegations = 0
        /\ iteration = 0
        /\ outcome \in {"running", "returned"}
        /\ pc \in {"loop", "check", "done"}
        /\ pc = "done" => outcome = "returned"

\* the run has ended; the head commit had changed and iterations were allowed
C4_Witness ==
    /\ pc = "done"
    /\ loop_entry.entered
    /\ loop_entry.token_seen
    /\ stop_token # <<>>
    /\ Len(Text(history)) > Len(stop_token)
    /\ head # constructed_hash
    /\ max_iterations >= 2

\* ---------------------------------------------------------------------- C5
CodeRunRaised == error = <<"code", "run", "Exception">>

\* C5: when the code-mode delegation of iteration k raises, the run has ended
\* with exit status 1; k iterations were attempted, each with one session run
\* once (no retry), k completion checks were made, all false, and nothing
\* more can happen.
C5_RaiseExits ==
    CodeRunRaised =>
        /\ pc = "done"
        /\ outcome = "exit1"
        /\ 1 <= iteration /\ iteration <= max_iterations
        /\ CodeCreated = iteration
        /\ \A i \in ModeSessions("code") : sessions[i].ran = <<continuation_prompt>>
        /\ Len(check_log) = iteration
        /\ \A i \in 1..Len(check_log) : ~check_log[i].ret
        /\ stdout[Len(stdout)] = "error"
        /\ ~ENABLED Next

\* the delegation of iteration 2 raised, with a third iteration still allowed
C5_Witness ==
    /\ CodeRunRaised
    /\ iteration = 2
    /\ max_iterations = 3

\* ---------------------------------------------------------------------- C6
\* C6: with the requirements file absent, run() only reads it, prints the
\* warning and exits with status 1: no session of either mode is created,
\* the continuation-prompt file is not read and no completion check is made.
C6_NoRequirements ==
    requirements_file = Absent =>
        /\ sessions = <<>>
        /\ check_log = <<>>
        /\ "continuation" \notin {reads[i] : i \in 1..Len(reads)}
        /\ iteration = 0
        /\ ~config.loaded
        /\ pc \in {"read_requirements", "done"}
        /\ pc = "done" => outcome = "exit1" /\ stdout = <<"not found">>

C6_Witness ==
    /\ requirements_file = Absent
    /\ pc = "done"
    /\ continuation_prompt_file = File("prompt text")
    /\ max_iterations >= 1

\* ---------------------------------------------------------------------- C7
ContinuationRead == "continuation" \in {reads[i] : i \in 1..Len(reads)}

\* C7: with the continuation-prompt file absent, once it has been read run()
\* has exited with status 1; the iteration counter is 0, no completion check
\* was made, no code-mode session exists, and exactly one architect-mode
\* session exists, which ran the requirements once.
C7_NoContinuation ==
    (continuation_prompt_file = Absent /\ ContinuationRead) =>
        /\ pc = "done"
        /\ outcome = "exit1"
        /\ iteration = 0
        /\ check_log = <<>>
        /\ CodeCreated = 0
        /\ Len(sessions) = 1
        /\ sessions[1].chat_mode = "architect"
        /\ sessions[1].ran = <<requirements>>
        /\ stdout = <<"not found">>

C7_Witness ==
    /\ continuation_prompt_file = Absent
    /\ ContinuationRead
    /\ max_iterations >= 1
    /\ head # constructed_hash

\* ---------------------------------------------------------------------- C8
PromptMissing ==
    \/ error[1] = "requirements" /\ requirements_file = Absent
    \/ error[1] = "continuation" /\ continuation_prompt_file = Absent
IterationRaised == error[1] = "code"

\* C8: run() ends with exit status 1 only when a prompt file is missing or
\* an iteration of the loop raised, and every run in which both prompt files
\* exist (and can be read) and nothing raises ends normally.
C8_ExitStatus ==
    pc = "done" =>
        /\ outcome = "exit1" => PromptMissing \/ IterationRaised
        /\ ( /\ Readable(requirements_file)
             /\ Readable(continuation_prompt_file)
             /\ NothingRaised ) => outcome = "returned"

\* ---------------------------------------------------------------------- C9
\* The override mapping M the file holds: absent and empty files hold none.
OverrideOf(f) == IF f[1] = "map" THEN f[2] ELSE EmptyMap
HoldsMapping(f) == f \in {Absent, ConfNull} \/ f[1] = "map"

\* C9: for every override mapping M (the empty one, an absent file and an
\* empty file included) load_config() returns a mapping over the default keys
\* and the keys of M that gives M's value, whole, for every key of M and the
\* default value for every other default key; self.base_config is as it was.
C9_OverridesWin ==
    (config.loaded /\ HoldsMapping(conf_file)) =>
        LET M == OverrideOf(conf_file)
            r == config.result
        IN /\ r.ok
           /\ DOMAIN r.value = DOMAIN BaseConfig \cup DOMAIN M
           /\ \A k \in DOMAIN M : r.value[k] = M[k]
           /\ \A k \in DOMAIN BaseConfig \ DOMAIN M : r.value[k] = BaseConfig[k]
           /\ base_config = BaseConfig

\* an override that flips one default, keeps another's value, adds a key of
\* its own and leaves the other defaults out
C9_Witness ==
    /\ config.loaded
    /\ conf_file[1] = "map"
    /\ DOMAIN conf_file[2] = {"auto_commits", "auto_test", "verbose"}
    /\ conf_file[2]["auto_commits"] = FALSE
    /\ conf_file[2]["auto_test"] = FALSE
    /\ config.result.value["auto_commits"] = FALSE
    /\ config.result.value["stream"] = FALSE
    /\ config.result.value["yes_always"] = TRUE

\* --------------------------------------------------------------------- C10
ParseError(phase) == error = <<phase, "load_config", "YAMLError">>
Printed(msg) == msg \in {stdout[i] : i \in 1..Len(stdout)}

\* C10 as claimed: a parse error of the override file met while a session is
\* created, in either phase, leaves run() as an exception, without the
\* diagnostic and exit status 1 of the delegation-failure path.
C10_AlwaysPropagates ==
    (ParseError("architect") \/ ParseError("code")) =>
        /\ outcome = "raised"
        /\ ~Printed("error")

\* C10 amended: load_config() and create_coder() never handle the parse
\* error.  Met while the architect session is created, it leaves run() as an
\* exception; met while the code session of an iteration is created, it is
\* caught by the handler of lines 140-142: diagnostic, then exit status 1.
C10_PropagatesOnlyFromArchitect ==
    /\ ParseError("architect") =>
         /\ pc = "done"
         /\ outcome = "raised"
         /\ ~Printed("error")
         /\ sessions = <<>>
    /\ ParseError("code") =>
         /\ pc = "done"
         /\ outcome = "exit1"
         /\ stdout[Len(stdout)] = "error"
         /\ CodeCreated = iteration - 1
         /\ CodeDelegations = iteration - 1

\* the parse error met in the second iteration
C10_Witness ==
    /\ ParseError("code")
    /\ iteration = 2
\* --------------------------------------------------------------------- C11
FalseChecks == Cardinality({i \in 1..Len(check_log) : ~check_log[i].ret})
LastCheckTrue == check_log # <<>> /\ check_log[Len(check_log)].ret

\* C11: code-mode delegations and false completion checks alternate, check
\* first: at every moment the false checks made are as many as the code-mode
\* delegations made, or one more, and a delegation is about to be made only
\* with one more.  A check that returned true is the last one and ends the
\* run: nothing is created or run after it.  When run() returns, the checks
\* equal the code-mode delegations if the loop ran out of iterations and
\* exceed them by one if the completion check broke the loop.
C11_CheckBeforeDelegation ==
    /\ FalseChecks - CodeDelegations \in {0, 1}
    /\ CodeCreated <= FalseChecks
    /\ pc \in {"iterate", "code_create", "code_run"} =>
          /\ FalseChecks = CodeDelegations + 1
          /\ ~check_log[Len(check_log)].ret
          /\ Len(check_log) = FalseChecks
    /\ \A i \in 1..Len(check_log) : check_log[i].ret => i = Len(check_log)
    /\ LastCheckTrue =>
          /\ pc = "done"
          /\ outcome = "returned"
          /\ ~ENABLED Next
          /\ CodeCreated = Len(check_log) - 1
          /\ CodeDelegations = Len(check_log) - 1
    /\ (pc = "done" /\ outcome = "returned" /\ ~LastCheckTrue) =>
          /\ Len(check_log) = CodeDelegations
          /\ iteration >= max_iterations

\* the loop ran out of iterations after two delegations
C11_Witness ==
    /\ pc = "done"
    /\ outcome = "returned"
    /\ ~LastCheckTrue
    /\ CodeDelegations = 2
    /\ Len(check_log) = 2

\* the completion check broke the loop after two delegations
C11_WitnessBreak ==
    /\ pc = "done"
    /\ LastCheckTrue
    /\ CodeDelegations = 2
    /\ Len(check_log) = 3

\* --------------------------------------------------------------------- C12
\* The head commit the k-th completion check is compared with: the one at
\* construction for the first, the one seen by check k-1 for the others.
HeadBefore(k) == IF k = 1 THEN constructed_hash ELSE check_log[k - 1].head

\* C12: the k-th code-mode session exists only if the head commit seen by
\* the k-th completion check differs from the head commit seen by the check
\* before it (for k = 1: from the head commit at construction); a first check
\* that finds the head commit of construction is followed by no code-mode
\* session.
C12_DelegationNeedsNewCommit ==
    /\ \A k \in 1..CodeCreated :
          /\ k <= Len(check_log)
          /\ check_log[k].head # HeadBefore(k)
    /\ \A k \in 1..Len(check_log) :
          check_log[k].head = HeadBefore(k) =>
              /\ check_log[k].ret
              /\ CodeCreated = k - 1
              /\ CodeDelegations = k - 1

\* two delegations made with no stop token seen, then no new commit
C12_Witness ==
    /\ Len(check_log) = 3
    /\ CodeDelegations = 2
    /\ ~TokenSeen(check_log[3])
    /\ check_log[3].head = check_log[2].head
    /\ stop_token # <<>>

\* the architect phase made no commit: no code-mode delegation
C12_WitnessNoCommit ==
    /\ Len(check_log) = 1
    /\ ~TokenSeen(check_log[1])
    /\ check_log[1].head = constructed_hash
    /\ max_iterations >= 1
    /\ pc = "done"
\* --------------------------------------------------------------------- C13
ArchitectSessions == ModeSessions("architect")

\* The architect session is the first session, it ran the requirements text
\* once and has returned.
ArchitectReturned ==
    /\ sessions # <<>>
    /\ sessions[1].chat_mode = "architect"
    /\ sessions[1].ran = <<Some(Text(requirements_file))>>
    /\ pc # "architect_run"

\* The order of C13: at most one architect session, created first; the
\* continuation prompt is read, a completion check is made and a code-mode
\* session is created only after it returned; every later session is a
\* code-mode session and runs nothing but the continuation-prompt text.
C13_ArchitectFirst ==
    /\ ArchitectSessions \subseteq {1}
    /\ (ContinuationRead \/ check_log # <<>> \/ CodeCreated > 0) => ArchitectReturned
    /\ \A i \in 2..Len(sessions) :
          /\ sessions[i].chat_mode = "code"
          /\ sessions[i].ran \in {<<>>, <<Some(Text(continuation_prompt_file))>>}
    /\ (pc = "done" /\ Truthy(requirements) /\ error[1] # "architect") =>
          /\ Cardinality(ArchitectSessions) = 1
          /\ ArchitectReturned

\* C13: the order above, and in every run whose requirements file was read
\* without error (and whose architect session could be created and run)
\* exactly one architect session was created and ran the requirements text.
C13_ExactlyOneArchitect ==
    /\ C13_ArchitectFirst
    /\ (pc = "done" /\ Readable(requirements_file) /\ error[1] # "architect") =>
          /\ Cardinality(ArchitectSessions) = 1
          /\ ArchitectReturned
\* --------------------------------------------------------------------- C14
\* The orchestrator's state other than previous_hash and run()'s position.
OtherOrchestratorState ==
    <<iteration, base_config, max_iterations, stop_token, requirements_file,
      continuation_prompt_file, requirements, continuation_prompt, sessions,
      config>>

\* C14: a step changes previous_hash only if it is a call of is_complete()
\* that returns false; a call that returns true leaves it as it was, also
\* when the token stops it while the head commit has changed; and a call of
\* is_complete() leaves the iteration counter, the configuration, the prompt
\* paths and texts and the sessions as they were.
C14_OnlyFalseCheckStores ==
    [][ /\ previous_hash' # previous_hash =>
              /\ pc = "check"
              /\ ~check_log'[Len(check_log')].ret
              /\ previous_hash' = head
        /\ pc = "check" =>
              /\ Len(check_log') = Len(check_log) + 1
              /\ check_log'[Len(check_log')].ret => previous_hash' = previous_hash
              /\ UNCHANGED OtherOrchestratorState
              /\ UNCHANGED env
      ]_vars

\* the token has just stopped a call made with a new head commit, and the
\* stored identifier is still the old one
C14_Witness ==
    /\ pc = "done"
    /\ LastCheckTrue
    /\ TokenSeen(check_log[Len(check_log)])
    /\ head # previous_hash
    /\ previous_hash = check_log[Len(check_log)].previous_hash
    /\ Len(check_log) >= 2
\* --------------------------------------------------------------------- C15
\* create_coder(chat_mode="code") calls made so far: those that returned a
\* session and the one that raised, if one did.
CodeAttempts ==
    CodeCreated
    + (IF error[1] = "code" /\ error[2] \in {"load_config", "create"} THEN 1 ELSE 0)

\* The counter is within its range and counts the iterations started: each
\* started iteration attempts one creation, at line 138, right after the
\* increment of line 134.
IterationInRange ==
    /\ 0 <= iteration
    /\ iteration <= Max0(max_iterations)
    /\ iteration = CodeAttempts + (IF pc = "code_create" THEN 1 ELSE 0)
    /\ max_iterations <= 0 =>
          /\ iteration = 0
          /\ check_log = <<>>
          /\ CodeCreated = 0
          /\ pc \notin {"check", "iterate", "code_create", "code_run"}

\* C15: in every state the iteration counter is between 0 and max_iterations
\* (0 when max_iterations <= 0, and then no completion check is made and no
\* code-mode session created), equals the number of code-mode session
\* creations attempted (the attempt of an iteration counted from its
\* increment on), and every step leaves it or adds one to it, the latter
\* only at line 134.
C15_IterationCounter ==
    [][ /\ IterationInRange
        /\ IterationInRange'
        /\ iteration' \in {iteration, iteration + 1}
        /\ iteration' = iteration + 1 => pc = "iterate" /\ pc' = "code_create"
      ]_vars

\* the counter has reached max_iterations = 3, the last creation attempt failed
C15_Witness ==
    /\ pc = "done"
    /\ iteration = 3
    /\ max_iterations = 3
    /\ CodeCreated = 2
    /\ CodeAttempts = 3

\* max_iterations = 0: the loop is over without a check
C15_WitnessZero ==
    /\ pc = "done"
    /\ loop_entry.entered
    /\ max_iterations = 0
    /\ outcome = "returned"
\* --------------------------------------------------------------------- C16
\* Iterations whose create_coder() call returned a session.
SuccessfulIterations ==
    iteration - (IF pc = "code_create" THEN 1 ELSE 0) - (CodeAttempts - CodeCreated)

\* Line 121 has returned a session.
ArchitectCreated ==
    IF \/ pc \in {"read_requirements", "architect_create"}
       \/ error[1] = "requirements"
       \/ error[1] = "architect" /\ error[2] # "run"
    THEN 0 ELSE 1

\* run() ended at line 119 or 127 on a prompt file that exists but is empty.
EmptyPromptExit ==
    \/ error[1] = "requirements" /\ requirements_file = File("")
    \/ error[1] = "continuation" /\ continuation_prompt_file = File("")

\* Every session but the newest has been run exactly once, the newest at
\* most once.
RunAtMostOnce ==
    \A i \in 1..Len(sessions) :
        /\ Len(sessions[i].ran) <= 1
        /\ i < Len(sessions) => Len(sessions[i].ran) = 1

\* C16 as claimed: no session is run twice, and a finished run has created
\* one session plus one per iteration whose creation succeeded.
C16_OnePlusIterations ==
    /\ RunAtMostOnce
    /\ (pc = "done" /\ ~EmptyPromptExit) =>
          Len(sessions) = 1 + SuccessfulIterations

\* C16 amended: no session is run twice, and the sessions created so far are
\* the architect session, if line 121 has returned one, plus one per
\* iteration whose creation succeeded.
C16_FreshSessions ==
    /\ RunAtMostOnce
    /\ Len(sessions) = ArchitectCreated + SuccessfulIterations
    /\ Cardinality(ArchitectSessions) = ArchitectCreated
    /\ CodeCreated = SuccessfulIterations

\* three iterations, the third creation failed: three sessions, each run once
C16_Witness ==
    /\ pc = "done"
    /\ iteration = 3
    /\ CodeAttempts = 3
    /\ Len(sessions) = 3
    /\ \A i \in 1..3 : Len(sessions[i].ran) = 1
\* --------------------------------------------------------------------- C17
Terminal == pc = "done" /\ outcome \in {"returned", "exit1", "raised"}

\* C17: when every delegation returns or raises, run() reaches a terminal
\* state, whatever max_iterations, the head commits and the chat history
\* are; and the loop never starts more than max_iterations iterations.
C17_Terminates ==
    /\ [](iteration <= Max0(max_iterations) /\ CodeDelegations <= Max0(max_iterations))
    /\ <>Terminal

\* max_iterations = 3 exhausted: the head commit changed before every check
\* and no check saw the stop token
C17_Witness ==
    /\ Terminal
    /\ outcome = "returned"
    /\ max_iterations = 3
    /\ CodeDelegations = 3
    /\ Len(check_log) = 3
    /\ ~LastCheckTrue
====
